---------------------------- MODULE Spec2Model ----------------------------
(***************************************************************************)
(* Quantum State Visualizer: the Streamlit session of app.py (session      *)
(* state, widgets, the three button handlers and the display pass) and the *)
(* numeric helpers of quantum_utils.py, modelled with exact arithmetic.    *)
(*                                                                         *)
(* Numbers.  Every amplitude the modelled gate set can produce lies in     *)
(* Z[i] / sqrt(2)^k, so a statevector is a vector of Gaussian integers     *)
(* <<re, im>> with one exponent k, a matrix is a matrix of Gaussian        *)
(* integers over one power-of-two denominator, and a real result is a      *)
(* fraction in lowest terms.  Angles are counted in quarter turns (pi/2).  *)
(***************************************************************************)
EXTENDS Integers, Sequences, FiniteSets, TLC

\* Python's None, as stored in st.session_state.
None == [type |-> "NoneType"]

(***************************************************************************)
(* State.                                                                  *)
(***************************************************************************)
VARIABLES
    session_state,  \* st.session_state: circuit, state_circuit, qasm_code, user_code,
                    \* counts, last_num_qubits
    widgets,        \* the sidebar: [num_qubits, enable_noise, noise]
    text_area,      \* the text in the code editor
    page,           \* what the last script run rendered
    last,           \* history: the button of the last script run
    since,          \* history: what happened since the stored counts were sampled
    stage,          \* library calls: the stage reached
    call_args,      \* library calls: the arguments
    built,          \* library calls: the circuit or noise model built
    rho_full,       \* library calls: the full density matrix
    rho_target,     \* library calls: [target_qubit, rho]
    readings        \* library calls: [bloch, purity]

app_vars == <<session_state, widgets, text_area, page, last, since>>
lib_vars == <<stage, call_args, built, rho_full, rho_target, readings>>
vars == <<app_vars, lib_vars>>

(***************************************************************************)
(* Bounds of the model.                                                    *)
(***************************************************************************)
\* Largest value of the "Number of Qubits" slider that is explored.
MaxNumQubits == 2
\* Longest gate list handed to create_circuit_from_gates.
MaxGates == 2
\* Largest noise-slider position (in hundredths) that is explored.
MaxNoise == 2

(***************************************************************************)
(* Exact arithmetic.                                                       *)
(***************************************************************************)
RECURSIVE Pow2(_)
Pow2(n) == IF n = 0 THEN 1 ELSE 2 * Pow2(n - 1)

Abs(x) == IF x < 0 THEN -x ELSE x

RECURSIVE GCD(_, _)
GCD(a, b) == IF b = 0 THEN a ELSE GCD(b, a % b)

\* The fraction n/d in lowest terms, d > 0.
Rat(n, d) ==
    LET g == GCD(Abs(n), Abs(d))
        s == IF d < 0 THEN -1 ELSE 1
    IN  <<(s * n) \div g, (s * d) \div g>>

CZero == <<0, 0>>
COne == <<1, 0>>
CAdd(a, b) == <<a[1] + b[1], a[2] + b[2]>>
CSub(a, b) == <<a[1] - b[1], a[2] - b[2]>>
CNeg(a) == <<-a[1], -a[2]>>
CMul(a, b) == <<a[1] * b[1] - a[2] * b[2], a[1] * b[2] + a[2] * b[1]>>
CConj(a) == <<a[1], -a[2]>>
CEven(a) == a[1] % 2 = 0 /\ a[2] % 2 = 0
CHalf(a) == <<a[1] \div 2, a[2] \div 2>>
CI == <<0, 1>>

\* Sum of f[lo] .. f[hi] (Gaussian integers).
RECURSIVE CSum(_, _, _)
CSum(f, lo, hi) == IF lo > hi THEN CZero ELSE CAdd(f[lo], CSum(f, lo + 1, hi))

\* Bit q of basis index i; qubit 0 is the least significant bit.
Bit(i, q) == (i \div Pow2(q)) % 2
Flip(i, q) == IF Bit(i, q) = 0 THEN i + Pow2(q) ELSE i - Pow2(q)

(***************************************************************************)
(* Matrices: [dim, den, m], entry (i, j) = m[i][j] / den, indices from 0.  *)
(***************************************************************************)
\* A function held as the table of its values, as an ndarray holds its entries.
array(f) == f @@ <<>>

Matrix(dim, den, m) ==
    [dim |-> dim, den |-> den, m |-> array([i \in 0 .. dim - 1 |-> array(m[i])])]

AllEven(M) == \A i \in 0 .. M.dim - 1 : \A j \in 0 .. M.dim - 1 : CEven(M.m[i][j])

RECURSIVE Lowest(_)
Lowest(M) ==
    IF M.den % 2 = 0 /\ AllEven(M)
    THEN Lowest(Matrix(M.dim, M.den \div 2,
                       [i \in 0 .. M.dim - 1 |-> [j \in 0 .. M.dim - 1 |-> CHalf(M.m[i][j])]]))
    ELSE M

\* np.dot(A, B) for square matrices of one size.
dot(A, B) ==
    Lowest(Matrix(A.dim, A.den * B.den,
        [i \in 0 .. A.dim - 1 |-> [j \in 0 .. A.dim - 1 |->
            CSum([k \in 0 .. A.dim - 1 |-> CMul(A.m[i][k], B.m[k][j])], 0, A.dim - 1)]]))

\* np.real(np.trace(M)), a fraction in lowest terms.
real_trace(M) == Rat(CSum([i \in 0 .. M.dim - 1 |-> M.m[i][i]], 0, M.dim - 1)[1], M.den)

(***************************************************************************)
(* Circuits.  A circuit is [num_qubits, num_clbits, data]; data is the     *)
(* ordered instruction list, each [name, qubits, clbits, params].          *)
(***************************************************************************)
Instruction(name, qubits, clbits, params) ==
    [name |-> name, qubits |-> qubits, clbits |-> clbits, params |-> params]

QuantumCircuit(num_qubits, num_clbits) ==
    [type |-> "QuantumCircuit", num_qubits |-> num_qubits, num_clbits |-> num_clbits,
     data |-> <<>>]

\* qc.h(q), qc.x(q), ...: append one instruction.
append(qc, inst) == [qc EXCEPT !.data = Append(@, inst)]

\* range(n) as a sequence.
range(n) == [i \in 1 .. n |-> i - 1]

SeqToSet(s) == {s[i] : i \in 1 .. Len(s)}

(***************************************************************************)
(* Statevector.from_instruction: [num_qubits, k, amp], amplitude of basis  *)
(* state i = amp[i] / sqrt(2)^k.                                           *)
(***************************************************************************)
Statevector(num_qubits, k, amp) ==
    [num_qubits |-> num_qubits, k |-> k, amp |-> array(amp)]

ZeroState(n) == Statevector(n, 0, [i \in 0 .. Pow2(n) - 1 |-> IF i = 0 THEN COne ELSE CZero])

\* One quarter turn (angle pi/2) about the named axis on qubit q.
QuarterTurn(sv, axis, q) ==
    LET a == sv.amp
        new(i) ==
            CASE axis = "rx" -> CSub(a[i], CMul(CI, a[Flip(i, q)]))
              [] axis = "ry" -> IF Bit(i, q) = 0 THEN CSub(a[i], a[Flip(i, q)])
                                ELSE CAdd(a[Flip(i, q)], a[i])
              [] OTHER       -> IF Bit(i, q) = 0 THEN CMul(<<1, -1>>, a[i])
                                ELSE CMul(<<1, 1>>, a[i])
    IN  Statevector(sv.num_qubits, sv.k + 1, [i \in DOMAIN a |-> new(i)])

RECURSIVE Rotate(_, _, _, _)
Rotate(sv, axis, q, turns) ==
    IF turns = 0 THEN sv ELSE Rotate(QuarterTurn(sv, axis, q), axis, q, turns - 1)

\* The state after one unitary instruction.
evolve(sv, inst) ==
    LET a == sv.amp
        q == inst.qubits[1]
        t == inst.qubits[Len(inst.qubits)]
        n == inst.name
    IN  CASE n = "h" ->
               Statevector(sv.num_qubits, sv.k + 1,
                   [i \in DOMAIN a |-> IF Bit(i, q) = 0 THEN CAdd(a[i], a[Flip(i, q)])
                                       ELSE CSub(a[Flip(i, q)], a[i])])
          [] n = "x" -> Statevector(sv.num_qubits, sv.k, [i \in DOMAIN a |-> a[Flip(i, q)]])
          [] n = "y" ->
               Statevector(sv.num_qubits, sv.k, [i \in DOMAIN a |->
                   IF Bit(i, q) = 0 THEN CNeg(CMul(CI, a[Flip(i, q)]))
                   ELSE CMul(CI, a[Flip(i, q)])])
          [] n = "z" -> Statevector(sv.num_qubits, sv.k, [i \in DOMAIN a |->
                             IF Bit(i, q) = 1 THEN CNeg(a[i]) ELSE a[i]])
          [] n = "cx" -> Statevector(sv.num_qubits, sv.k, [i \in DOMAIN a |->
                             IF Bit(i, q) = 1 THEN a[Flip(i, t)] ELSE a[i]])
          [] n = "cz" -> Statevector(sv.num_qubits, sv.k, [i \in DOMAIN a |->
                             IF Bit(i, q) = 1 /\ Bit(i, t) = 1 THEN CNeg(a[i]) ELSE a[i]])
          [] n \in {"rx", "ry", "rz"} -> Rotate(sv, n, q, inst.params[1] % 4)
          [] OTHER -> sv

\* Instructions Statevector.from_instruction cannot apply.
NonUnitary == {"measure"}

RECURSIVE evolve_all(_, _)
evolve_all(sv, data) ==
    IF data = <<>> THEN sv ELSE evolve_all(evolve(sv, Head(data)), Tail(data))

\* Statevector.from_instruction(circuit): [ok, val]; fails on a measurement.
from_instruction(circuit) ==
    IF \E i \in 1 .. Len(circuit.data) : circuit.data[i].name \in NonUnitary
    THEN [ok |-> FALSE, val |-> "QiskitError"]
    ELSE [ok |-> TRUE, val |-> evolve_all(ZeroState(circuit.num_qubits), circuit.data)]

\* DensityMatrix(state_vector): the outer product |psi><psi|.
DensityMatrix(sv) ==
    [num_qubits |-> sv.num_qubits,
     data |-> Lowest(Matrix(Pow2(sv.num_qubits), Pow2(sv.k),
                 [i \in DOMAIN sv.amp |-> [j \in DOMAIN sv.amp |->
                     CMul(sv.amp[i], CConj(sv.amp[j]))]]))]

get_full_density_matrix_from_circuit(circuit) ==
    LET state_vector == from_instruction(circuit)
    IN  IF state_vector.ok THEN [ok |-> TRUE, val |-> DensityMatrix(state_vector.val)]
        ELSE state_vector

(***************************************************************************)
(* partial_trace(state, qargs): trace out the qubits listed in qargs.      *)
(***************************************************************************)
\* The basis index with the bits of a on the qubits of where (in order).
RECURSIVE Spread(_, _)
Spread(a, where) ==
    IF where = <<>> THEN 0
    ELSE (a % 2) * Pow2(Head(where)) + Spread(a \div 2, Tail(where))

partial_trace(state, qargs) ==
    LET n == state.num_qubits
        kept == SelectSeq(range(n), LAMBDA q : q \notin SeqToSet(qargs))
        gone == SelectSeq(range(n), LAMBDA q : q \in SeqToSet(qargs))
        d == Pow2(Len(kept))
        e == Pow2(Len(gone))
    IN  [num_qubits |-> Len(kept),
         data |-> Lowest(Matrix(d, state.data.den,
             [a \in 0 .. d - 1 |-> [b \in 0 .. d - 1 |->
                 CSum([r \in 0 .. e - 1 |->
                         state.data.m[Spread(a, kept) + Spread(r, gone)]
                                     [Spread(b, kept) + Spread(r, gone)]],
                      0, e - 1)]]))]

traced_out_qubits(num_qubits, target_qubit) ==
    SelectSeq(range(num_qubits), LAMBDA i : i # target_qubit)

get_reduced_density_matrix(full_dm, num_qubits, target_qubit) ==
    partial_trace(full_dm, traced_out_qubits(num_qubits, target_qubit)).data

(***************************************************************************)
(* Bloch vector and purity of a density matrix.                            *)
(***************************************************************************)
pauli_x == Matrix(2, 1, [i \in 0 .. 1 |-> [j \in 0 .. 1 |-> IF i # j THEN COne ELSE CZero]])
pauli_y == Matrix(2, 1, [i \in 0 .. 1 |-> [j \in 0 .. 1 |->
               IF i = 0 /\ j = 1 THEN <<0, -1>> ELSE IF i = 1 /\ j = 0 THEN <<0, 1>> ELSE CZero]])
\* A faulty Z matrix with its signs exchanged.
pauli_z_flipped ==
    Matrix(2, 1, [i \in 0 .. 1 |-> [j \in 0 .. 1 |->
        IF i # j THEN CZero ELSE IF i = 0 THEN <<-1, 0>> ELSE COne]])

pauli_z == Matrix(2, 1, [i \in 0 .. 1 |-> [j \in 0 .. 1 |->
               IF i # j THEN CZero ELSE IF i = 0 THEN COne ELSE <<-1, 0>>]])

get_bloch_vector_from_rho(rho) ==
    LET bx == real_trace(dot(pauli_x, rho))
        by == real_trace(dot(pauli_y, rho))
        bz == real_trace(dot(pauli_z, rho))
    IN  <<bx, by, bz>>

purity_from_rho(rho) == real_trace(dot(rho, rho))

(***************************************************************************)
(* create_circuit_from_gates: gate tuples <<name, a>> or <<name, a, b>>.   *)
(***************************************************************************)
\* A faulty builder that reads (gate, control, target) as (gate, target, control).
add_gate_swapped(qc, gate) ==
    LET gate_name == gate[1]
    IN  CASE gate_name \in {"h", "x", "y", "z"} ->
               append(qc, Instruction(gate_name, <<gate[2]>>, <<>>, <<>>))
          [] gate_name \in {"rx", "ry", "rz"} ->
               append(qc, Instruction(gate_name, <<gate[2]>>, <<>>, <<gate[3]>>))
          [] gate_name \in {"cx", "cz"} ->
               append(qc, Instruction(gate_name, <<gate[3], gate[2]>>, <<>>, <<>>))
          [] OTHER -> qc

add_gate(qc, gate) ==
    LET gate_name == gate[1]
    IN  CASE gate_name = "h"  -> append(qc, Instruction("h", <<gate[2]>>, <<>>, <<>>))
          [] gate_name = "x"  -> append(qc, Instruction("x", <<gate[2]>>, <<>>, <<>>))
          [] gate_name = "y"  -> append(qc, Instruction("y", <<gate[2]>>, <<>>, <<>>))
          [] gate_name = "z"  -> append(qc, Instruction("z", <<gate[2]>>, <<>>, <<>>))
          [] gate_name = "rx" -> append(qc, Instruction("rx", <<gate[2]>>, <<>>, <<gate[3]>>))
          [] gate_name = "ry" -> append(qc, Instruction("ry", <<gate[2]>>, <<>>, <<gate[3]>>))
          [] gate_name = "rz" -> append(qc, Instruction("rz", <<gate[2]>>, <<>>, <<gate[3]>>))
          [] gate_name = "cx" -> append(qc, Instruction("cx", <<gate[2], gate[3]>>, <<>>, <<>>))
          [] gate_name = "cz" -> append(qc, Instruction("cz", <<gate[2], gate[3]>>, <<>>, <<>>))
          [] OTHER -> qc

RECURSIVE apply_gates(_, _)
apply_gates(qc, gates) ==
    IF gates = <<>> THEN qc ELSE apply_gates(add_gate(qc, Head(gates)), Tail(gates))

create_circuit_from_gates(num_qubits, gates) ==
    apply_gates(QuantumCircuit(num_qubits, 0), gates)

(***************************************************************************)
(* build_noise_model.  Probabilities are slider positions in hundredths.   *)
(* A noise model is [quantum_errors, readout_error]: quantum_errors maps a *)
(* gate name to the channels attached to it, in the order attached.        *)
(***************************************************************************)
NoiseModel == [quantum_errors |-> <<>>, readout_error |-> None]

depolarizing_error(p, n) == [channel |-> "depolarizing", param |-> p, num_qubits |-> n]
amplitude_damping_error(g) == [channel |-> "amplitude_damping", param |-> g, num_qubits |-> 1]
phase_damping_error(g) == [channel |-> "phase_damping", param |-> g, num_qubits |-> 1]
ReadoutError(ro_01, ro_10) ==
    [probabilities |-> <<<<100 - ro_01, ro_01>>, <<ro_10, 100 - ro_10>>>>]

\* The error is attached to every listed gate (composed after what is there).
add_all_qubit_quantum_error(noise, error, instructions) ==
    LET old == noise.quantum_errors
        names == SeqToSet(instructions)
    IN  [noise EXCEPT !.quantum_errors =
            [g \in DOMAIN old \cup names |->
                IF g \notin names THEN old[g]
                ELSE IF g \in DOMAIN old THEN Append(old[g], error)
                ELSE <<error>>]]

add_all_qubit_readout_error(noise, error) == [noise EXCEPT !.readout_error = error]

OneQubitGates == <<"h", "x", "y", "z", "s", "t">>

\* A faulty gate list that extends amplitude damping to cx.
decay_gates_with_cx == OneQubitGates \o <<"cx">>

depol_gates == OneQubitGates \o <<"cx">>
decay_gates == OneQubitGates
phase_gates == OneQubitGates

\* A faulty trigger that needs both readout probabilities.
readout_on_both(ro_01, ro_10) == ro_01 > 0 /\ ro_10 > 0

depol_on(depol_p) == depol_p > 0
decay_on(decay_f) == decay_f > 0
phase_on(phase_g) == phase_g > 0
readout_on(ro_01, ro_10) == ro_01 > 0 \/ ro_10 > 0

build_noise_model(depol_p, decay_f, phase_g, ro_01, ro_10) ==
    LET n0 == NoiseModel
        n1 == IF depol_on(depol_p)
              THEN add_all_qubit_quantum_error(n0, depolarizing_error(depol_p, 1), depol_gates)
              ELSE n0
        n2 == IF decay_on(decay_f)
              THEN add_all_qubit_quantum_error(n1, amplitude_damping_error(decay_f), decay_gates)
              ELSE n1
        n3 == IF phase_on(phase_g)
              THEN add_all_qubit_quantum_error(n2, phase_damping_error(phase_g), phase_gates)
              ELSE n2
    IN  IF readout_on(ro_01, ro_10)
        THEN add_all_qubit_readout_error(n3, ReadoutError(ro_01, ro_10))
        ELSE n3

(***************************************************************************)
(* The code editor.  A source text is a sequence of statements, each       *)
(* [call, qargs, cargs, params]; the empty text is <<>>.                   *)
(***************************************************************************)
Stmt(call, qargs, cargs, params) ==
    [call |-> call, qargs |-> qargs, cargs |-> cargs, params |-> params]

\* qc_init_code + example_code for the slider value num_qubits.
default_code(n) ==
    IF n >= 2
    THEN << Stmt("QuantumCircuit", <<>>, <<>>, <<n, n>>),
            Stmt("h", <<0>>, <<>>, <<>>),
            Stmt("cx", <<0, 1>>, <<>>, <<>>),
            Stmt("barrier", <<>>, <<>>, <<>>),
            Stmt("measure", <<0, 1>>, <<0, 1>>, <<>>) >>
    ELSE << Stmt("QuantumCircuit", <<>>, <<>>, <<n, n>>),
            Stmt("h", <<0>>, <<>>, <<>>),
            Stmt("barrier", <<>>, <<>>, <<>>),
            Stmt("measure", <<0>>, <<0>>, <<>>) >>

\* Python truthiness and isinstance of the object bound to qc.
truthy(v) ==
    CASE v.type = "NoneType" -> FALSE
      [] v.type = "int" -> v.value # 0
      [] v.type = "QuantumCircuit" -> Len(v.data) > 0
      [] OTHER -> TRUE

isinstance(v, cls) == v.type = cls

\* One statement of the user's code; env is [raised, qc].  A gate call needs qc
\* bound to a circuit and its indices in range, and raises otherwise.
exec_stmt(env, st) ==
    LET qc == env.qc
        bad_index == \/ \E i \in 1 .. Len(st.qargs) : st.qargs[i] >= qc.num_qubits
                     \/ \E i \in 1 .. Len(st.cargs) : st.cargs[i] >= qc.num_clbits
    IN  IF env.raised THEN env
        ELSE IF st.call = "QuantumCircuit"
        THEN [env EXCEPT !.qc = QuantumCircuit(st.params[1],
                                    IF Len(st.params) > 1 THEN st.params[2] ELSE 0)]
        ELSE IF st.call = "int"
        THEN [env EXCEPT !.qc = [type |-> "int", value |-> st.params[1]]]
        ELSE IF st.call = "pass" THEN env
        ELSE IF st.call = "raise" THEN [env EXCEPT !.raised = TRUE]
        ELSE IF ~isinstance(qc, "QuantumCircuit") THEN [env EXCEPT !.raised = TRUE]
        ELSE IF bad_index THEN [env EXCEPT !.raised = TRUE]
        ELSE IF st.call = "barrier"
        THEN [env EXCEPT !.qc = append(qc, Instruction("barrier", range(qc.num_qubits),
                                                       <<>>, <<>>))]
        ELSE IF st.call = "measure"
        THEN [env EXCEPT !.qc.data = @ \o [i \in 1 .. Len(st.qargs) |->
                 Instruction("measure", <<st.qargs[i]>>, <<st.cargs[i]>>, <<>>)]]
        ELSE [env EXCEPT !.qc = append(qc, Instruction(st.call, st.qargs, <<>>, st.params))]

RECURSIVE exec_from(_, _)
exec_from(env, code) ==
    IF code = <<>> THEN env ELSE exec_from(exec_stmt(env, Head(code)), Tail(code))

\* exec(user_code, exec_globals) and exec_globals.get("qc").
exec(user_code) == exec_from([raised |-> FALSE, qc |-> None], user_code)

(***************************************************************************)
(* Circuit services used by the handlers.                                  *)
(***************************************************************************)
\* qasm2.dumps: the OpenQASM 2 text, line by line.
QasmLine(stmt, params, qubits, clbits) ==
    [stmt |-> stmt, params |-> params, qubits |-> qubits, clbits |-> clbits]

qasm2_dumps(circuit) ==
    << QasmLine("OPENQASM 2.0", <<>>, <<>>, <<>>),
       QasmLine("qreg q", <<circuit.num_qubits>>, <<>>, <<>>) >>
    \o (IF circuit.num_clbits > 0
        THEN <<QasmLine("creg c", <<circuit.num_clbits>>, <<>>, <<>>)>> ELSE <<>>)
    \o [i \in 1 .. Len(circuit.data) |->
           QasmLine(circuit.data[i].name, circuit.data[i].params,
                    circuit.data[i].qubits, circuit.data[i].clbits)]

wires(inst) ==
    {<<"q", inst.qubits[i]>> : i \in 1 .. Len(inst.qubits)}
    \cup {<<"c", inst.clbits[i]>> : i \in 1 .. Len(inst.clbits)}

\* The instructions after position i that depend on it through a shared wire.
RECURSIVE successors(_, _, _)
successors(data, reached, j) ==
    IF j > Len(data) THEN reached
    ELSE successors(data,
             IF \E m \in reached : wires(data[m]) \cap wires(data[j]) # {}
             THEN reached \cup {j} ELSE reached,
             j + 1)

final_op_types == {"measure", "barrier"}

\* A measurement or barrier followed, on its wires, only by measurements and barriers.
is_final_op(data, i) ==
    /\ data[i].name \in final_op_types
    /\ \A j \in successors(data, {i}, i + 1) : data[j].name \in final_op_types

RECURSIVE keep_from(_, _)
keep_from(data, i) ==
    IF i > Len(data) THEN <<>>
    ELSE (IF is_final_op(data, i) THEN <<>> ELSE <<data[i]>>) \o keep_from(data, i + 1)

\* circuit.remove_final_measurements(inplace=True), on a copy.
remove_final_measurements(circuit) ==
    LET kept == keep_from(circuit.data, 1)
        removed == \E i \in 1 .. Len(circuit.data) :
                       is_final_op(circuit.data, i) /\ circuit.data[i].clbits # <<>>
        idle == \A i \in 1 .. Len(kept) : kept[i].clbits = <<>>
    IN  [circuit EXCEPT !.data = kept,
                        !.num_clbits = IF removed /\ idle THEN 0 ELSE @]

\* circuit.measure_all(inplace=True): a new register, a barrier, one measurement per qubit.
measure_all(circuit) ==
    LET n == circuit.num_qubits
    IN  [circuit EXCEPT
            !.num_clbits = @ + n,
            !.data = @ \o <<Instruction("barrier", range(n), <<>>, <<>>)>>
                       \o [i \in 1 .. n |->
                              Instruction("measure", <<i - 1>>, <<circuit.num_clbits + i - 1>>,
                                          <<>>)]]

has_measurement(circuit) == \E i \in 1 .. Len(circuit.data) : circuit.data[i].name = "measure"

(***************************************************************************)
(* The Streamlit script.  One user interaction runs the script from the    *)
(* top; st.rerun() abandons the run and runs the script once more with no  *)
(* button pressed.  script_run returns the session state, the editor text  *)
(* and what the last run put on the page.                                  *)
(***************************************************************************)
\* Program constants.
SafeQubitLimit == 10
shots == 1024
DefaultNumQubits == 2
MinNumQubits == 1

\* Lines 123-135: a fresh session.
fresh_session ==
    [circuit |-> None, state_circuit |-> None, qasm_code |-> <<>>, user_code |-> <<>>,
     counts |-> None, last_num_qubits |-> -1]

\* A name that has not been assigned in this run.
Unbound == [type |-> "unbound"]

\* Nothing rendered below the editor.
blank_view ==
    [messages |-> {}, results |-> FALSE, full_dm_obj |-> Unbound, diagram |-> None,
     qasm |-> <<>>, full_purity |-> <<>>, final_state |-> <<>>, measure_button |-> FALSE,
     handed_to_simulator |-> None, histogram |-> None, bloch |-> <<>>]

\* A faulty reset that forgets the counts.
clear_and_reset_keeps_counts(ss) ==
    [ss EXCEPT !.circuit = None, !.state_circuit = None, !.qasm_code = <<>>,
               !.user_code = <<>>, !.last_num_qubits = -1]

\* Lines 146-153: the Clear and Reset handler's assignments.
clear_and_reset(ss) ==
    [ss EXCEPT !.circuit = None, !.state_circuit = None, !.qasm_code = <<>>,
               !.user_code = <<>>, !.counts = None, !.last_num_qubits = -1]

\* Lines 199-201: the editor text is regenerated.
regenerate(ss, num_qubits) == ss.last_num_qubits # num_qubits \/ ss.user_code = <<>>

refresh_default(ss, num_qubits) ==
    IF regenerate(ss, num_qubits)
    THEN [ss EXCEPT !.user_code = default_code(num_qubits), !.last_num_qubits = num_qubits]
    ELSE ss

\* Line 203: the text the editor returns in this run.
editor_text(ss, num_qubits, typed) ==
    IF regenerate(ss, num_qubits) THEN default_code(num_qubits) ELSE typed

\* A faulty start of the handler that keeps the counts of the previous circuit.
run_start_keeps_counts(ss, user_code) == [ss EXCEPT !.user_code = user_code]

\* A faulty except branch that forgets the state circuit.
run_raised_keeps_state_circuit(ss) == [ss EXCEPT !.circuit = None]

\* Lines 210-233: the Run Simulation handler; [ss, ok, message].
run_start(ss, user_code) == [ss EXCEPT !.user_code = user_code, !.counts = None]

run_store(ss, circuit) ==
    [ss EXCEPT !.circuit = circuit, !.qasm_code = qasm2_dumps(circuit),
               !.state_circuit = remove_final_measurements(circuit)]

run_not_found(ss) == ss

run_raised(ss) == [ss EXCEPT !.circuit = None, !.state_circuit = None]

\* Lines 219-233: what the handler does with the outcome of exec.
after_exec(s1, env) ==
    IF env.raised
    THEN [ss |-> run_raised(s1), ok |-> FALSE, message |-> "Error in your code"]
    ELSE IF truthy(env.qc) /\ isinstance(env.qc, "QuantumCircuit")
    THEN [ss |-> run_store(s1, env.qc), ok |-> TRUE, message |-> "success"]
    ELSE [ss |-> run_not_found(s1), ok |-> FALSE, message |-> "qc was not found"]

run_simulation(ss, user_code) == after_exec(run_start(ss, user_code), exec(user_code))

\* A faulty guard of the Bloch display, one qubit too generous.
bloch_shown_past_limit(state_circuit) == state_circuit.num_qubits <= SafeQubitLimit + 1

\* Lines 243, 258, 325: the three tests of the qubit count.
analysis_disabled(state_circuit) == state_circuit.num_qubits > SafeQubitLimit
final_state_shown(state_circuit) == state_circuit.num_qubits <= SafeQubitLimit
bloch_shown(state_circuit) == state_circuit.num_qubits <= SafeQubitLimit

(***************************************************************************)
(* The inputs explored.                                                    *)
(***************************************************************************)
NoiseSliders(depol_p, decay_f, phase_g, ro_01, ro_10) ==
    [depol_p |-> depol_p, decay_f |-> decay_f, phase_g |-> phase_g,
     ro_01 |-> ro_01, ro_10 |-> ro_10]

\* Lines 159-166: the sliders as the page first shows them.
default_sliders == NoiseSliders(0, 0, 0, 0, 0)

\* Slider settings tried in a session: all at zero and all raised.
NoiseChoices ==
    { default_sliders, NoiseSliders(MaxNoise, MaxNoise, MaxNoise, 1, MaxNoise) }

\* Texts typed into the editor.
code_raises == << Stmt("raise", <<>>, <<>>, <<>>) >>
code_no_qc == << Stmt("pass", <<>>, <<>>, <<>>) >>
code_qc_is_int == << Stmt("int", <<>>, <<>>, <<5>>) >>
code_no_gates == << Stmt("QuantumCircuit", <<>>, <<>>, <<1>>) >>
code_big == << Stmt("QuantumCircuit", <<>>, <<>>, <<SafeQubitLimit + 1>>),
               Stmt("x", <<0>>, <<>>, <<>>) >>
code_unmeasured == << Stmt("QuantumCircuit", <<>>, <<>>, <<1, 1>>),
                      Stmt("x", <<0>>, <<>>, <<>>) >>
code_mid_measure == << Stmt("QuantumCircuit", <<>>, <<>>, <<1, 1>>),
                       Stmt("h", <<0>>, <<>>, <<>>),
                       Stmt("measure", <<0>>, <<0>>, <<>>),
                       Stmt("x", <<0>>, <<>>, <<>>) >>

UserTexts ==
    { code_raises, code_no_qc, code_qc_is_int, code_no_gates, code_big,
      code_unmeasured, code_mid_measure }
    \cup { default_code(n) : n \in MinNumQubits .. MaxNumQubits }

(***************************************************************************)
(* The display's calls into quantum_utils.  Their results for the state    *)
(* circuits the explored texts can store are tabulated once; any other     *)
(* argument is computed on the spot.                                       *)
(***************************************************************************)
image(f) == { f[x] : x \in DOMAIN f }

lookup(table, key, computed) == IF key \in DOMAIN table THEN table[key] ELSE computed

known_circuits ==
    { c \in { r.ss.state_circuit :
                  r \in { q \in { run_simulation(fresh_session, t) : t \in UserTexts } :
                              q.ok } } :
        c.num_qubits <= MaxNumQubits }

known_full_dm ==
    array([c \in known_circuits |-> get_full_density_matrix_from_circuit(c)])

known_states == { r.val : r \in { q \in image(known_full_dm) : q.ok } }

known_reduced ==
    array([p \in { <<s, s.num_qubits, i>> : s \in known_states, i \in 0 .. MaxNumQubits - 1 } |->
              get_reduced_density_matrix(p[1], p[2], p[3])])

known_rho == { s.data : s \in known_states } \cup image(known_reduced)

known_bloch ==
    array([rho \in { r \in known_rho : r.dim = 2 } |-> get_bloch_vector_from_rho(rho)])

known_purity == array([rho \in known_rho |-> purity_from_rho(rho)])

\* Line 245.
full_density_matrix(state_circuit) ==
    lookup(known_full_dm, state_circuit, get_full_density_matrix_from_circuit(state_circuit))

\* Line 328.
reduced_density_matrix(full_dm_obj, display_qubits, i) ==
    lookup(known_reduced, <<full_dm_obj, display_qubits, i>>,
           get_reduced_density_matrix(full_dm_obj, display_qubits, i))

\* Line 329.
bloch_vector(rho) == lookup(known_bloch, rho, get_bloch_vector_from_rho(rho))

\* Lines 260 and 330.
purity(rho) == lookup(known_purity, rho, purity_from_rho(rho))

(***************************************************************************)
(* The results section of the page.                                        *)
(***************************************************************************)
\* Lines 258-267: the final state and its purity.
show_final_state(v, full_purity) ==
    [v EXCEPT !.full_purity = <<full_purity>>,
              !.final_state = IF full_purity = <<1, 1>> THEN <<"statevector">>
                              ELSE <<"density matrix">>]

\* Lines 253-267: the circuit, its code and the final state.
show_circuit(ss, v, full_dm_obj) ==
    IF ~final_state_shown(ss.state_circuit) THEN [raised |-> FALSE, view |-> v]
    ELSE IF full_dm_obj = Unbound THEN [raised |-> TRUE, view |-> v]
    ELSE [raised |-> FALSE, view |-> show_final_state(v, purity(full_dm_obj.data))]

\* Lines 245-267, dm being the outcome of the call at line 245.
after_density_matrix(ss, v, dm) ==
    IF ~dm.ok THEN [raised |-> TRUE, view |-> v]
    ELSE show_circuit(ss, [v EXCEPT !.full_dm_obj = dm.val, !.diagram = ss.circuit,
                                    !.qasm = ss.qasm_code],
                      dm.val)

\* Lines 241-267: the top of the results section; raised when a step throws.
display_top(ss, v) ==
    after_density_matrix(
        ss,
        [v EXCEPT !.results = TRUE,
                  !.messages = IF analysis_disabled(ss.state_circuit)
                               THEN @ \cup {"analysis is disabled"} ELSE @],
        IF analysis_disabled(ss.state_circuit) THEN [ok |-> TRUE, val |-> Unbound]
        ELSE full_density_matrix(ss.state_circuit))

\* Lines 278-281: the circuit that is measured.
circuit_to_measure(ss) ==
    IF ss.circuit.num_clbits = 0 THEN measure_all(ss.circuit) ELSE ss.circuit

\* Lines 283-287.
noise_model_for(enable_noise, nz) ==
    IF enable_noise
    THEN build_noise_model(nz.depol_p, nz.decay_f, nz.phase_g, nz.ro_01, nz.ro_10)
    ELSE None

\* Lines 289-293: the sampling simulator; the histogram is named by what it was
\* sampled from.  A result with no measurement has no counts to return.
get_counts(circuit, noise_model) ==
    IF has_measurement(circuit)
    THEN [ok |-> TRUE,
          val |-> [type |-> "Counts", sampled_from |-> circuit, noise_model |-> noise_model,
                   total |-> shots]]
    ELSE [ok |-> FALSE, val |-> None]

\* A faulty handler that stores the measured copy as the session's circuit.
measure_store_measured_copy(ss, counts) ==
    [ss EXCEPT !.counts = counts, !.circuit = counts.sampled_from]

\* Line 293: what the Measure and Run handler leaves in the session on success.
measure_store(ss, counts) == [ss EXCEPT !.counts = counts]

\* Lines 329-341: what is shown of one qubit's reduced density matrix.
qubit_readings(reduced_dm_data) ==
    [reduced_dm_data |-> reduced_dm_data,
     bloch |-> bloch_vector(reduced_dm_data),
     purity |-> purity(reduced_dm_data)]

\* Lines 327-341.
qubit_display(full_dm_obj, display_qubits, i) ==
    qubit_readings(reduced_density_matrix(full_dm_obj, display_qubits, i))

\* Lines 296-341: the histogram, the notice and the per-qubit Bloch display.
display_bottom(ss, enable_noise, v) ==
    LET sc == ss.state_circuit
        v1 == [v EXCEPT !.histogram = IF truthy(ss.counts) THEN ss.counts ELSE None,
                        !.messages = IF enable_noise
                                     THEN @ \cup {"Bloch spheres show the ideal state"}
                                     ELSE @]
    IN  IF ~bloch_shown(sc) THEN [raised |-> FALSE, view |-> v1]
        ELSE IF v.full_dm_obj = Unbound THEN [raised |-> TRUE, view |-> v1]
        ELSE [raised |-> FALSE,
              view |-> [v1 EXCEPT !.bloch = [i \in 1 .. sc.num_qubits |->
                           qubit_display(v.full_dm_obj, sc.num_qubits, i - 1)]]]

\* Line 343-344: the error the results section reports.
caught(v) == [v EXCEPT !.messages = @ \cup {"Error during simulation or visualization"}]

\* The script ran to its end.
script_end(ss, user_code, v) ==
    [session_state |-> ss, text_area |-> user_code, view |-> v, completed |-> "none",
     rerun |-> FALSE]

\* Lines 154, 226 and 294: st.rerun() abandons the run.
st_rerun(ss, user_code) ==
    [session_state |-> ss, text_area |-> user_code, view |-> blank_view,
     completed |-> "none", rerun |-> TRUE]

\* Lines 293-294: the handler from the simulator's result on; a raised error is
\* reported with the circuit that was handed to the simulator.
after_sampling(ss, v, got, user_code) ==
    IF got.ok THEN st_rerun(measure_store(ss, got.val), user_code)
    ELSE script_end(ss, user_code,
                    caught([v EXCEPT !.handed_to_simulator = circuit_to_measure(ss)]))

\* Lines 296-341 and what they leave on the page.
after_display_bottom(ss, bottom, user_code) ==
    script_end(ss, user_code, IF bottom.raised THEN caught(bottom.view) ELSE bottom.view)

\* Lines 270-344: the results section below its top.
below_top(ss, top, user_code, enable_noise, nz, click) ==
    IF top.raised THEN script_end(ss, user_code, caught(top.view))
    ELSE IF click = "measure"
    THEN after_sampling(ss, [top.view EXCEPT !.measure_button = TRUE],
                        get_counts(circuit_to_measure(ss),
                                   noise_model_for(enable_noise, nz)),
                        user_code)
    ELSE after_display_bottom(ss,
                              display_bottom(ss, enable_noise,
                                             [top.view EXCEPT !.measure_button = TRUE]),
                              user_code)

\* Lines 237-344: the results section.
results(ss, v, user_code, enable_noise, nz, click) ==
    IF ss.circuit = None \/ ss.state_circuit = None THEN script_end(ss, user_code, v)
    ELSE below_top(ss, display_top(ss, v), user_code, enable_noise, nz, click)

\* Lines 210-233: the Run Simulation button; [ss, view, rerun].
after_click(ran) ==
    [ss |-> ran.ss, rerun |-> ran.ok,
     view |-> IF ran.ok THEN blank_view ELSE [blank_view EXCEPT !.messages = {ran.message}]]

run_button(ss, user_code, click) ==
    IF click = "run" THEN after_click(run_simulation(ss, user_code))
    ELSE [ss |-> ss, rerun |-> FALSE, view |-> blank_view]

\* Lines 237-344 unless the Run Simulation handler has called st.rerun().
below_run_button(b, user_code, enable_noise, nz, click) ==
    IF b.rerun THEN st_rerun(b.ss, user_code)
    ELSE results(b.ss, b.view, user_code, enable_noise, nz, click)

\* One run of the script from the top, to its end or to an st.rerun().
script_pass(ss, num_qubits, enable_noise, nz, typed, click) ==
    IF click = "reset" THEN st_rerun(clear_and_reset(ss), typed)
    ELSE below_run_button(run_button(refresh_default(ss, num_qubits),
                                     editor_text(ss, num_qubits, typed), click),
                          editor_text(ss, num_qubits, typed), enable_noise, nz, click)

\* The run that st.rerun() starts: no button is pressed in it.
rerun_of(r, num_qubits, enable_noise, nz, click) ==
    IF r.rerun
    THEN [script_pass(r.session_state, num_qubits, enable_noise, nz, r.text_area, "none")
             EXCEPT !.completed = click]
    ELSE r

script_run(ss, num_qubits, enable_noise, nz, typed, click) ==
    rerun_of(script_pass(ss, num_qubits, enable_noise, nz, typed, click),
             num_qubits, enable_noise, nz, click)

(***************************************************************************)
(* The session: Init is the page after its first load.                     *)
(***************************************************************************)
lib_idle ==
    /\ stage = "app" /\ call_args = None /\ built = None /\ rho_full = None
    /\ rho_target = None /\ readings = None

Widgets(n, en, nz) == [num_qubits |-> n, enable_noise |-> en, noise |-> nz]

app_first_load ==
    \E r \in {script_run(fresh_session, DefaultNumQubits, FALSE, default_sliders, <<>>,
                       "none")} :
        /\ session_state = r.session_state
        /\ widgets = Widgets(DefaultNumQubits, FALSE, default_sliders)
        /\ text_area = r.text_area
        /\ page = r.view
        /\ last = "none"
        /\ since = {}

Init == app_first_load /\ lib_idle

\* One interaction: the widget values of the run, the button pressed, the text typed.
Interact(w, typed, click) ==
    \E r \in {script_run(session_state, w.num_qubits, w.enable_noise, w.noise, typed, click)} :
        /\ session_state' = r.session_state
        /\ text_area' = r.text_area
        /\ page' = r.view
        /\ widgets' = w
        /\ last' = click
        /\ since' = IF r.session_state.counts = None \/ r.completed = "measure" THEN {}
                    ELSE since \cup (IF r.text_area # text_area THEN {"edit"} ELSE {})
                               \cup (IF click \in {"run", "reset"} THEN {click} ELSE {})
        /\ UNCHANGED lib_vars

SetNumQubits(n) ==
    /\ n # widgets.num_qubits
    /\ Interact([widgets EXCEPT !.num_qubits = n], text_area, "none")

ToggleNoise == Interact([widgets EXCEPT !.enable_noise = ~@], text_area, "none")

SetNoise(nz) ==
    /\ nz # widgets.noise
    /\ Interact([widgets EXCEPT !.noise = nz], text_area, "none")

EditCode(typed) ==
    /\ typed # text_area
    /\ Interact(widgets, typed, "none")

RunSimulation == Interact(widgets, text_area, "run")

MeasureAndRun ==
    /\ page.measure_button
    /\ Interact(widgets, text_area, "measure")

ClearAndReset == Interact(widgets, text_area, "reset")

Next ==
    \/ \E n \in MinNumQubits .. MaxNumQubits : SetNumQubits(n)
    \/ ToggleNoise
    \/ \E nz \in NoiseChoices : SetNoise(nz)
    \/ \E typed \in UserTexts : EditCode(typed)
    \/ RunSimulation
    \/ MeasureAndRun
    \/ ClearAndReset

Spec == Init /\ [][Next]_vars

(***************************************************************************)
(* Properties of the session.                                              *)
(***************************************************************************)
\* The last script run was a Run Simulation that stored no circuit.
RunFailed ==
    /\ last = "run"
    /\ page.messages \cap {"Error in your code", "qc was not found"} # {}

\* C1: after a Run Simulation that yields no valid circuit (the code raises, binds
\* no qc, or binds something that is not a circuit) the stored circuit and state
\* circuit are None, whatever was stored before.
C1_FailedRunClearsCircuit ==
    RunFailed => session_state.circuit = None /\ session_state.state_circuit = None

\* What Clear and Reset discards.
ResetDiscards ==
    /\ session_state.circuit = None
    /\ session_state.state_circuit = None
    /\ session_state.counts = None
    /\ session_state.qasm_code = <<>>

\* C2 as stated: after Clear and Reset, circuit, state_circuit and counts are None
\* and qasm_code and user_code are empty.
C2_ResetLeavesUserCodeEmpty ==
    last = "reset" => ResetDiscards /\ session_state.user_code = <<>>

\* C2: after Clear and Reset, from any state, circuit, state_circuit and counts are
\* None and qasm_code is empty, nothing is shown below the editor, and user_code
\* and the editor hold the default code of the slider's qubit count.
C2_ResetLeavesDefaultCode ==
    last = "reset" =>
        /\ ResetDiscards
        /\ ~page.results
        /\ session_state.user_code = default_code(widgets.num_qubits)
        /\ session_state.last_num_qubits = widgets.num_qubits
        /\ text_area = default_code(widgets.num_qubits)

C2_AfterReset ==
    /\ last = "reset"
    /\ widgets.num_qubits # DefaultNumQubits
    /\ session_state.user_code = default_code(widgets.num_qubits)

\* C3 as stated: counts that are present were sampled after the last reset and
\* after the last change of the editor text.
C3_CountsClearedOnEdit == session_state.counts # None => since = {}

\* C3: counts are written only by Measure and Run, which replaces what was there,
\* and they are cleared by Clear and Reset and by every Run Simulation: counts that
\* are present were sampled after the last reset and after the last Run Simulation
\* (an edit of the text alone leaves them in place).
C3_CountsClearedOnRunOrReset ==
    /\ [](session_state.counts # None => since \cap {"run", "reset"} = {})
    /\ [][(session_state.counts' # None /\ session_state.counts' # session_state.counts)
              => last' = "measure" /\ since' = {}]_vars

C3_CountsKeptAfterEdit == session_state.counts # None /\ "edit" \in since

\* The state analysis on a page.
shown_analysis(p) ==
    [full_dm_obj |-> p.full_dm_obj, full_purity |-> p.full_purity,
     final_state |-> p.final_state, bloch |-> p.bloch]

\* The page shows results and its display pass ran to the end.
displayed(p) == p.results /\ "Error during simulation or visualization" \notin p.messages

\* The analysis of a circuit computed directly with quantum_utils.
ideal_analysis(circuit) ==
    LET sc == remove_final_measurements(circuit)
        dm == get_full_density_matrix_from_circuit(sc).val
        full_purity == purity_from_rho(dm.data)
        qubit(i) ==
            LET rho == get_reduced_density_matrix(dm, sc.num_qubits, i)
            IN  [reduced_dm_data |-> rho, bloch |-> get_bloch_vector_from_rho(rho),
                 purity |-> purity_from_rho(rho)]
    IN  [full_dm_obj |-> dm, full_purity |-> <<full_purity>>,
         final_state |-> IF full_purity = <<1, 1>> THEN <<"statevector">>
                         ELSE <<"density matrix">>,
         bloch |-> [i \in 1 .. sc.num_qubits |-> qubit(i - 1)]]

\* C4: Measure and Run leaves the stored circuit and state circuit unchanged, and
\* the displayed state (state circuit, full density matrix, reduced states, Bloch
\* vectors, purities) is determined by the stored circuit alone, whatever the noise
\* checkbox and the five noise sliders are.
C4_DisplayDependsOnCircuitOnly ==
    /\ []((displayed(page) /\ session_state.circuit.num_qubits <= SafeQubitLimit) =>
            /\ session_state.state_circuit = remove_final_measurements(session_state.circuit)
            /\ shown_analysis(page) = ideal_analysis(session_state.circuit))
    /\ [][/\ last' = "measure" =>
                /\ session_state.circuit' = session_state.circuit
                /\ session_state.state_circuit' = session_state.state_circuit
          /\ (session_state.circuit' = session_state.circuit
                  /\ displayed(page) /\ displayed(page')) =>
                shown_analysis(page') = shown_analysis(page)]_vars

C4_MeasuredUnderNoise ==
    /\ last = "measure"
    /\ session_state.counts # None
    /\ widgets.enable_noise
    /\ widgets.noise # default_sliders
    /\ session_state.counts.noise_model # None
    /\ page.bloch # <<>>

\* C9: for a stored circuit of more than 10 qubits the page shows the diagram and
\* the QASM text and the notice, no density matrix, purity, final state or Bloch
\* display is computed or read, and the display pass raises no error; for at most
\* 10 qubits whatever the page shows of the analysis was computed from a density
\* matrix that had been assigned.
C9_AnalysisSkippedAboveLimit ==
    page.results =>
        /\ session_state.state_circuit.num_qubits > SafeQubitLimit =>
              /\ page.full_dm_obj = Unbound
              /\ page.full_purity = <<>> /\ page.final_state = <<>> /\ page.bloch = <<>>
              /\ page.diagram = session_state.circuit
              /\ page.qasm = session_state.qasm_code
              /\ page.messages \cap {"Error during simulation or visualization"} = {}
              /\ "analysis is disabled" \in page.messages
        /\ session_state.state_circuit.num_qubits <= SafeQubitLimit =>
              ((page.full_purity # <<>> \/ page.final_state # <<>> \/ page.bloch # <<>>)
                  => page.full_dm_obj # Unbound)

C9_BigCircuitShown ==
    /\ page.results
    /\ session_state.state_circuit.num_qubits > SafeQubitLimit
    /\ page.diagram = session_state.circuit
    /\ page.qasm # <<>>

\* C11: on every Measure and Run action the circuit handed to the sampling simulator
\* contains a measurement: the counts in the session were sampled from a circuit
\* that measures, and a page left by a Measure and Run action whose simulator call
\* raised shows no handed-over circuit without a measurement.
C11_HandedCircuitMeasures ==
    /\ session_state.counts # None => has_measurement(session_state.counts.sampled_from)
    /\ page.handed_to_simulator # None => has_measurement(page.handed_to_simulator)

InitNoise ==
    /\ app_first_load
    /\ stage = "sliders"
    /\ call_args \in { NoiseSliders(a, b, c, d, e) : a, b, c, d, e \in 0 .. MaxNoise }
    /\ built = None /\ rho_full = None /\ rho_target = None /\ readings = None

BuildNoiseModel ==
    /\ stage = "sliders"
    /\ built' = build_noise_model(call_args.depol_p, call_args.decay_f, call_args.phase_g,
                                  call_args.ro_01, call_args.ro_10)
    /\ stage' = "noise_model"
    /\ UNCHANGED <<app_vars, call_args, rho_full, rho_target, readings>>

NextNoise == BuildNoiseModel

SpecNoise == InitNoise /\ [][NextNoise]_vars

\* The noise model carries a channel of this kind on some gate.
attached(model, channel) ==
    \E g \in DOMAIN model.quantum_errors :
        \E i \in 1 .. Len(model.quantum_errors[g]) :
            model.quantum_errors[g][i].channel = channel

GateTuples ==
    { <<"h", 0>>, <<"x", 1>>, <<"y", 0>>, <<"z", 1>>,
      <<"rx", 0, 1>>, <<"ry", 1, 2>>, <<"rz", 0, 3>>,
      <<"cx", 0, 1>>, <<"cz", 1, 0>>,
      <<"s", 0>>, <<"swap", 0, 1>> }

GateLists(tuples) == UNION { [1 .. k -> tuples] : k \in 0 .. MaxGates }

BuilderCall(n, gates) == [num_qubits |-> n, gates |-> gates]

InitBuild ==
    /\ app_first_load
    /\ stage = "gates"
    /\ call_args \in { BuilderCall(DefaultNumQubits, g) : g \in GateLists(GateTuples) }
    /\ built = None /\ rho_full = None /\ rho_target = None /\ readings = None

CreateCircuit ==
    /\ stage = "gates"
    /\ built' = create_circuit_from_gates(call_args.num_qubits, call_args.gates)
    /\ stage' = "circuit"
    /\ UNCHANGED <<app_vars, call_args, rho_full, rho_target, readings>>

NextBuild == CreateCircuit

SpecBuild == InitBuild /\ [][NextBuild]_vars

RecognizedGates == {"h", "x", "y", "z", "rx", "ry", "rz", "cx", "cz"}

\* The operation a recognized tuple stands for, by the form of the tuple.
operation_of(gate) ==
    IF gate[1] \in {"h", "x", "y", "z"}
    THEN [name |-> gate[1], qubits |-> <<gate[2]>>, clbits |-> <<>>, params |-> <<>>]
    ELSE IF gate[1] \in {"rx", "ry", "rz"}
    THEN [name |-> gate[1], qubits |-> <<gate[2]>>, clbits |-> <<>>, params |-> <<gate[3]>>]
    ELSE [name |-> gate[1], qubits |-> <<gate[2], gate[3]>>, clbits |-> <<>>,
          params |-> <<>>]

\* C8: create_circuit_from_gates returns a circuit on num_qubits qubits, with no
\* classical bits, whose operations are the recognized tuples of the list, in the
\* order of the list, each applied as its form says; other tuples add nothing.
C8_OperationsAreRecognizedTuples ==
    stage = "circuit" =>
        LET recognized == SelectSeq(call_args.gates, LAMBDA g : g[1] \in RecognizedGates)
        IN  /\ built.type = "QuantumCircuit"
            /\ built.num_qubits = call_args.num_qubits
            /\ built.num_clbits = 0
            /\ Len(built.data) = Len(recognized)
            /\ \A i \in 1 .. Len(recognized) : built.data[i] = operation_of(recognized[i])

C8_SkippedAndKept ==
    /\ stage = "circuit"
    /\ call_args.gates = << <<"swap", 0, 1>>, <<"cx", 0, 1>> >>
    /\ Len(built.data) = 1
    /\ built.data[1].qubits = <<0, 1>>

(***************************************************************************)
(* The pipeline of quantum_utils called on its own: build the circuit,     *)
(* take the full density matrix, reduce it to one target, read the Bloch   *)
(* vector and the purities.                                                *)
(***************************************************************************)
PipelineTuples == { <<"h", 0>>, <<"x", 0>>, <<"x", 1>>, <<"cx", 0, 1>> }

gate_qubits(gate) == IF Len(gate) = 3 THEN {gate[2], gate[3]} ELSE {gate[2]}

\* The lists whose gates all act inside a circuit of n qubits.
PipelineLists(n) ==
    { g \in GateLists(PipelineTuples) :
          \A k \in 1 .. Len(g) : \A q \in gate_qubits(g[k]) : q < n }

InitPipeline ==
    /\ app_first_load
    /\ stage = "gates"
    /\ call_args \in UNION { { BuilderCall(n, g) : g \in PipelineLists(n) } :
                                n \in MinNumQubits .. MaxNumQubits }
    /\ built = None /\ rho_full = None /\ rho_target = None /\ readings = None

FullDensityMatrix ==
    /\ stage = "circuit"
    /\ rho_full' = get_full_density_matrix_from_circuit(built).val
    /\ stage' = "full"
    /\ UNCHANGED <<app_vars, call_args, built, rho_target, readings>>

\* The function has no test of target_qubit: every call returns.
ReducedDensityMatrix(target_qubit) ==
    /\ stage = "full"
    /\ rho_target' = [target_qubit |-> target_qubit,
                      rho |-> get_reduced_density_matrix(rho_full, call_args.num_qubits,
                                                         target_qubit)]
    /\ stage' = "reduced"
    /\ UNCHANGED <<app_vars, call_args, built, rho_full, readings>>

\* np.dot of a 2x2 Pauli matrix with anything but a 2x2 matrix raises.
Analyse ==
    /\ stage = "reduced"
    /\ readings' = IF rho_target.rho.dim = 2
                   THEN [ok |-> TRUE,
                         bloch |-> get_bloch_vector_from_rho(rho_target.rho),
                         purity |-> purity_from_rho(rho_target.rho),
                         full_purity |-> purity_from_rho(rho_full.data)]
                   ELSE [ok |-> FALSE]
    /\ stage' = "analysed"
    /\ UNCHANGED <<app_vars, call_args, built, rho_full, rho_target>>

NextPipeline ==
    \/ CreateCircuit
    \/ FullDensityMatrix
    \/ \E target_qubit \in -1 .. call_args.num_qubits : ReducedDensityMatrix(target_qubit)
    \/ Analyse

SpecPipeline == InitPipeline /\ [][NextPipeline]_vars

\* C7: get_reduced_density_matrix returns only for a target inside
\* 0 .. num_qubits - 1 (outside it fails), and what it returns is 2 x 2.
C7_OutOfRangeTargetFails ==
    stage \in {"reduced", "analysed"} =>
        /\ rho_target.target_qubit \in 0 .. call_args.num_qubits - 1
        /\ rho_target.rho.dim = 2

bell_gates == << <<"h", 0>>, <<"cx", 0, 1>> >>

half_identity ==
    Matrix(2, 2, [i \in 0 .. 1 |-> [j \in 0 .. 1 |-> IF i = j THEN COne ELSE CZero]])

\* C10: for [('h',0),('cx',0,1)] on 2 qubits each qubit's reduced matrix is
\* [[1/2,0],[0,1/2]], its Bloch vector (0,0,0) and its purity 1/2, and the purity
\* of the full state is 1; for X(0) on 1 qubit the Bloch vector is (0,0,-1) and the
\* purity 1.
C10_BellAndFlippedQubit ==
    /\ (call_args = BuilderCall(2, bell_gates) /\ stage \in {"reduced", "analysed"}
            /\ rho_target.target_qubit \in {0, 1}) =>
          /\ rho_target.rho = half_identity
          /\ stage = "analysed" =>
                /\ readings.ok
                /\ readings.bloch = << <<0, 1>>, <<0, 1>>, <<0, 1>> >>
                /\ readings.purity = <<1, 2>>
                /\ readings.full_purity = <<1, 1>>
    /\ (call_args = BuilderCall(1, << <<"x", 0>> >>) /\ stage = "analysed"
            /\ rho_target.target_qubit = 0) =>
          /\ readings.ok
          /\ readings.bloch = << <<0, 1>>, <<0, 1>>, <<-1, 1>> >>
          /\ readings.purity = <<1, 1>>

C10_BellQubitAnalysed ==
    /\ stage = "analysed"
    /\ call_args = BuilderCall(2, bell_gates)
    /\ rho_target.target_qubit = 1
    /\ readings.ok
    /\ readings.purity = <<1, 2>>

=============================================================================
